---- MODULE Spec2Model ----
(***************************************************************************)
(* prpc: the generated service dispatchers (prpc-build/src/server.rs,      *)
(* prpc-build/src/client.rs) and the composition runtime                   *)
(* (prpc/src/lib.rs, server::ComposedService).                             *)
(*                                                                         *)
(* Strings are sequences of one-character strings, so that splitting a     *)
(* path on '.' and comparing a segment with a service NAME are computed.   *)
(* Payloads and bodies are sequences of byte values.                       *)
(***************************************************************************)
EXTENDS Integers, Sequences, FiniteSets, TLC

VARIABLES comp, app, calls, listed, schema, server_out, client_out, probe

vars == <<comp, app, calls, listed, schema, server_out, client_out, probe>>

(***************************************************************************)
(* Bounds of the model.                                                    *)
(***************************************************************************)
\* longest request path drawn
MaxPathLen == 3
\* concurrent dispatch calls in ConcSpec
MaxCalls == 2
\* longest method list of a schema drawn in GenSpec
MaxMethods == 2

\* impl_service_for_tuple!(T1, T2): the arities the runtime is generated for
MaxArity == 2

\* the characters of names and paths
Alphabet == {"a", "b", "."}

RECURSIVE SeqsUpTo(_, _)
SeqsUpTo(S, n) ==
    IF n = 0 THEN {<<>>}
    ELSE LET R == SeqsUpTo(S, n - 1)
         IN  R \cup {Append(s, x) : s \in R, x \in S}

Paths == SeqsUpTo(Alphabet, MaxPathLen)

(***************************************************************************)
(* server::Error and the results of a dispatch.                            *)
(***************************************************************************)
NotFound == [kind |-> "NotFound"]

DecodeError(cause) == [kind |-> "DecodeError", cause |-> cause]

BadRequest(message) == [kind |-> "BadRequest", message |-> message]

Ok(body) == [kind |-> "Ok", body |-> body]

NoResult == [kind |-> "None"]

\* impl From<DecodeError> for Error
FromDecodeError(e) == DecodeError(e)

\* fault variant: the message of the error is not kept
FromAnyhowLosesMessage(msg) == BadRequest(<<"error">>)

\* impl From<anyhow::Error> for Error: BadRequest(error.to_string())
FromAnyhow(msg) == BadRequest(msg)

\* impl From<ScaleCodecErr> for Error
FromScaleCodecErr(e) == DecodeError(e)

\* impl From<serde_json::Error> for Error
FromSerdeJson(e) == DecodeError(e)

\* the conversion of a serde_qs::Error that `?` at server.rs:262 needs
FromSerdeQs(e) == DecodeError(e)

(***************************************************************************)
(* The codecs.  The request type is a message with one field,              *)
(* `uint32 x = 1`; the response type is a message with `uint32 y = 1`.     *)
(* Byte values are below 128, so every varint is one byte long.            *)
(***************************************************************************)
DecOk(v) == [ok |-> TRUE, value |-> v]

DecErr(e) == [ok |-> FALSE, err |-> e]

\* Default::default() of the request type
DefaultRequest == [x |-> 0]

\* prost::encoding::skip_field for a group: keys are skipped up to the
\* EndGroup key of the same field; the result is the buffer after it.
\* (prost's recursion limit is 100.)
RECURSIVE SkipGroup(_, _, _)
SkipGroup(field, buf, depth) ==
    IF buf = <<>> THEN DecErr(<<"invalid varint">>)
    ELSE LET key == Head(buf)
             f == key \div 8
             wt == key % 8
             rest == Tail(buf)
         IN  IF f = 0 THEN DecErr(<<"invalid tag value: 0">>)
             ELSE IF wt = 4
                  THEN IF f = field THEN DecOk(rest)
                       ELSE DecErr(<<"unexpected end group tag">>)
             ELSE IF wt = 0
                  THEN IF rest = <<>> THEN DecErr(<<"invalid varint">>)
                       ELSE SkipGroup(field, Tail(rest), depth)
             ELSE IF wt = 1
                  THEN IF Len(rest) < 8 THEN DecErr(<<"buffer underflow">>)
                       ELSE SkipGroup(field, SubSeq(rest, 9, Len(rest)), depth)
             ELSE IF wt = 5
                  THEN IF Len(rest) < 4 THEN DecErr(<<"buffer underflow">>)
                       ELSE SkipGroup(field, SubSeq(rest, 5, Len(rest)), depth)
             ELSE IF wt = 2
                  THEN IF rest = <<>> THEN DecErr(<<"invalid varint">>)
                       ELSE IF Len(rest) - 1 < Head(rest)
                            THEN DecErr(<<"buffer underflow">>)
                            ELSE SkipGroup(field,
                                           SubSeq(rest, Head(rest) + 2, Len(rest)),
                                           depth)
             ELSE IF wt = 3
                  THEN IF depth = 0 THEN DecErr(<<"recursion limit reached">>)
                       ELSE LET inner == SkipGroup(f, rest, depth - 1)
                            IN  IF inner.ok THEN SkipGroup(field, inner.value, depth)
                                ELSE inner
             ELSE DecErr(<<"invalid wire type value">>)

\* ::prpc::Message::decode(_data.as_ref()): Default, then merge field by
\* field; the empty buffer decodes to the default value.
RECURSIVE ProstMerge(_, _)
ProstMerge(msg, buf) ==
    IF buf = <<>> THEN DecOk(msg)
    ELSE LET key == Head(buf)
             f == key \div 8
             wt == key % 8
             rest == Tail(buf)
         IN  IF f = 0 THEN DecErr(<<"invalid tag value: 0">>)
             ELSE IF wt > 5 THEN DecErr(<<"invalid wire type value">>)
             ELSE IF f = 1
                  THEN IF wt # 0 THEN DecErr(<<"invalid wire type">>)
                       ELSE IF rest = <<>> THEN DecErr(<<"invalid varint">>)
                       ELSE ProstMerge([msg EXCEPT !.x = Head(rest)], Tail(rest))
             ELSE IF wt = 0
                  THEN IF rest = <<>> THEN DecErr(<<"invalid varint">>)
                       ELSE ProstMerge(msg, Tail(rest))
             ELSE IF wt = 1
                  THEN IF Len(rest) < 8 THEN DecErr(<<"buffer underflow">>)
                       ELSE ProstMerge(msg, SubSeq(rest, 9, Len(rest)))
             ELSE IF wt = 5
                  THEN IF Len(rest) < 4 THEN DecErr(<<"buffer underflow">>)
                       ELSE ProstMerge(msg, SubSeq(rest, 5, Len(rest)))
             ELSE IF wt = 2
                  THEN IF rest = <<>> THEN DecErr(<<"invalid varint">>)
                       ELSE IF Len(rest) - 1 < Head(rest)
                            THEN DecErr(<<"buffer underflow">>)
                            ELSE ProstMerge(msg, SubSeq(rest, Head(rest) + 2, Len(rest)))
             ELSE IF wt = 3
                  THEN LET inner == SkipGroup(f, rest, 100)
                       IN  IF inner.ok THEN ProstMerge(msg, inner.value) ELSE inner
             ELSE DecErr(<<"unexpected end group tag">>)

ProstDecode(buf) == ProstMerge(DefaultRequest, buf)

\* ::prpc::codec::encode_message_to_vec: a zero field is not written.
EncodeMessageToVec(resp) == IF resp.y = 0 THEN <<>> ELSE <<8, resp.y>>

\* the ASCII characters of the text codecs
Ascii == [LBrace |-> 123, RBrace |-> 125, Quote |-> 34, Colon |-> 58,
          Equals |-> 61, LetterX |-> 120, LetterY |-> 121, Digit0 |-> 48]

IsDigit(b) == b >= Ascii.Digit0 /\ b <= Ascii.Digit0 + 9

\* ::prpc::serde_json::from_slice(data) into the request type: {"x":d}
JsonFromSlice(buf) ==
    IF /\ Len(buf) = 7
       /\ SubSeq(buf, 1, 5) = <<Ascii.LBrace, Ascii.Quote, Ascii.LetterX, Ascii.Quote, Ascii.Colon>>
       /\ IsDigit(buf[6])
       /\ buf[7] = Ascii.RBrace
    THEN DecOk([x |-> buf[6] - Ascii.Digit0])
    ELSE DecErr(<<"serde_json">>)

\* ::prpc::serde_qs::from_bytes(data) into the request type: x=d
QsFromBytes(buf) ==
    IF /\ Len(buf) = 3
       /\ SubSeq(buf, 1, 2) = <<Ascii.LetterX, Ascii.Equals>>
       /\ IsDigit(buf[3])
    THEN DecOk([x |-> buf[3] - Ascii.Digit0])
    ELSE DecErr(<<"serde_qs">>)

\* serde_json::to_vec(&response): {"y":d}
JsonToVec(resp) == <<Ascii.LBrace, Ascii.Quote, Ascii.LetterY, Ascii.Quote, Ascii.Colon, Ascii.Digit0 + resp.y, Ascii.RBrace>>

\* the payloads drawn: none, a binary request, a truncated binary request,
\* a JSON request and a query-string request
PayloadProst == <<8, 1>>
PayloadProstBad == <<8>>
PayloadJson == <<Ascii.LBrace, Ascii.Quote, Ascii.LetterX, Ascii.Quote, Ascii.Colon, Ascii.Digit0 + 1, Ascii.RBrace>>
PayloadQs == <<Ascii.LetterX, Ascii.Equals, Ascii.Digit0 + 1>>

Payloads == {<<>>, PayloadProst, PayloadProstBad, PayloadJson, PayloadQs}

(***************************************************************************)
(* The schema (prpc-build's Service and Method traits) and the generators. *)
(***************************************************************************)
Method(name, identifier, request, client_streaming, server_streaming) ==
    [name |-> name, identifier |-> identifier, request |-> request,
     client_streaming |-> client_streaming, server_streaming |-> server_streaming]

Service(name, package, identifier, methods) ==
    [name |-> name, package |-> package, identifier |-> identifier,
     methods |-> methods]

\* crate::join_path(config, package, service, method): the dotted route key
JoinPath(package, service, method) ==
    (IF package = <<>> THEN <<>> ELSE package \o <<".">>)
        \o service \o <<".">> \o method

Panic(msg) == [panic |-> TRUE, msg |-> msg]

Emitted(out) == [panic |-> FALSE, out |-> out]

\* server.rs generate_unary: the body of one match arm, as data
ServerGenerateUnary(method, json) ==
    [ident |-> method.name, request |-> method.request, json |-> json]

\* server.rs generate_methods: one match arm per method, in schema order;
\* the first streaming method panics
RECURSIVE ServerGenerateMethodsFrom(_, _, _, _)
ServerGenerateMethodsFrom(service, json, i, stream) ==
    IF i > Len(service.methods) THEN Emitted(stream)
    ELSE LET method == service.methods[i]
             path == JoinPath(service.package, service.identifier, method.identifier)
         IN  IF method.client_streaming \/ method.server_streaming
             THEN Panic("Streaming RPC not supported")
             ELSE ServerGenerateMethodsFrom(service, json, i + 1,
                      Append(stream,
                             [path |-> path, body |-> ServerGenerateUnary(method, json)]))

ServerGenerateMethods(service, json) ==
    ServerGenerateMethodsFrom(service, json, 1, <<>>)

\* server.rs generate_trait_methods: one trait method per schema method
RECURSIVE GenerateTraitMethodsFrom(_, _, _)
GenerateTraitMethodsFrom(service, i, stream) ==
    IF i > Len(service.methods) THEN Emitted(stream)
    ELSE LET method == service.methods[i]
         IN  IF method.client_streaming \/ method.server_streaming
             THEN Panic("Streaming RPC not supported")
             ELSE GenerateTraitMethodsFrom(service, i + 1,
                      Append(stream, [name |-> method.name, request |-> method.request]))

\* fault variant: the route paths are listed last method first
GenerateSupportedMethodsReversed(service) ==
    [i \in 1..Len(service.methods) |->
        JoinPath(service.package, service.identifier,
                 service.methods[Len(service.methods) + 1 - i].identifier)]

\* server.rs generate_supported_methods: the route paths, in schema order
GenerateSupportedMethods(service) ==
    [i \in 1..Len(service.methods) |->
        JoinPath(service.package, service.identifier, service.methods[i].identifier)]

\* server.rs generate_methods_enum: (path, variant) pairs of from_str
GenerateMethodsEnum(service) ==
    [i \in 1..Len(service.methods) |->
        [path |-> JoinPath(service.package, service.identifier,
                           service.methods[i].identifier),
         variant |-> service.methods[i].identifier]]

\* server.rs generate: the generated server module, or the panic that
\* aborts the build before anything is returned
ServerGenerate(service) ==
    LET methods == ServerGenerateMethods(service, FALSE)
        json_methods == ServerGenerateMethods(service, TRUE)
        generated_trait == GenerateTraitMethodsFrom(service, 1, <<>>)
    IN  IF methods.panic THEN methods
        ELSE IF json_methods.panic THEN json_methods
        ELSE IF generated_trait.panic THEN generated_trait
        ELSE Emitted([NAME |-> service.name,
                      methods |-> methods.out,
                      json_methods |-> json_methods.out,
                      supported_methods |-> GenerateSupportedMethods(service),
                      method_enum |-> GenerateMethodsEnum(service),
                      trait |-> generated_trait.out])

\* client.rs generate_unary: one typed call
ClientGenerateUnary(method, path) ==
    [ident |-> method.name, request |-> method.request, path |-> path]

\* client.rs generate_methods
RECURSIVE ClientGenerateMethodsFrom(_, _, _)
ClientGenerateMethodsFrom(service, i, stream) ==
    IF i > Len(service.methods) THEN Emitted(stream)
    ELSE LET method == service.methods[i]
             path == JoinPath(service.package, service.identifier, method.identifier)
         IN  IF method.client_streaming \/ method.server_streaming
             THEN Panic("Only unary method supported")
             ELSE ClientGenerateMethodsFrom(service, i + 1,
                      Append(stream, ClientGenerateUnary(method, path)))

\* fault variant: only the client-streaming flag is tested
ClientGenerateMethodsIgnoresServerStreaming(service) ==
    IF \E i \in 1..Len(service.methods) : service.methods[i].client_streaming
    THEN Panic("Only unary method supported")
    ELSE Emitted([i \in 1..Len(service.methods) |->
                    ClientGenerateUnary(service.methods[i],
                        JoinPath(service.package, service.identifier,
                                 service.methods[i].identifier))])

ClientGenerateMethods(service) == ClientGenerateMethodsFrom(service, 1, <<>>)

\* client.rs generate
ClientGenerate(service) ==
    LET methods == ClientGenerateMethods(service)
    IN  IF methods.panic THEN methods
        ELSE Emitted([client |-> service.name, methods |-> methods.out])

(***************************************************************************)
(* The services of the runtime model.  SvcA and SvcC declare the same      *)
(* NAME: the runtime does not enforce distinct names.                      *)
(***************************************************************************)
SvcA == Service(<<"a">>, <<>>, <<"a">>,
                <<Method("a", <<"a">>, TRUE, FALSE, FALSE),
                  Method("b", <<"b">>, FALSE, FALSE, FALSE)>>)

SvcB == Service(<<"b">>, <<>>, <<"b">>,
                <<Method("a", <<"a">>, FALSE, FALSE, FALSE)>>)

SvcC == Service(<<"a">>, <<>>, <<"a">>,
                <<Method("b", <<"b">>, TRUE, FALSE, FALSE)>>)

Schemas == {SvcA, SvcB, SvcC}

\* the generated server module of a schema of the runtime model
Server(sch) == ServerGenerate(sch).out

\* the ordered compositions ComposedService<(T1, ..), A> is implemented for
Compositions == SeqsUpTo(Schemas, MaxArity)

\* the application handle A: the implementer of every service trait
Apps == {[id |-> 1, rejects |-> r] : r \in {"none", "all"}}

Unit == [unit |-> TRUE]

\* the implementer's handler (self.inner.method(input).await): it reads the
\* application state behind the handle and does not change it
HandlerOutcome(inner, ident, input) ==
    IF inner.rejects = "all"
    THEN DecErr(<<"rejected", ident>>)
    ELSE DecOk([y |-> IF input = Unit THEN 1 ELSE input.x])

(***************************************************************************)
(* The generated dispatcher at run time.  A dispatch runs synchronously up *)
(* to the handler's await (Enter), is suspended there, and runs            *)
(* synchronously from the handler's return to its own return (Resume).     *)
(***************************************************************************)
Suspend(arm, input, steps) ==
    [suspended |-> TRUE, arm |-> arm, input |-> input, steps |-> steps,
     result |-> NoResult]

NoArm == [ident |-> "", request |-> FALSE, json |-> FALSE]

Return(result, steps) ==
    [suspended |-> FALSE, arm |-> NoArm, input |-> Unit, steps |-> steps,
     result |-> result]

\* fault variant: the payload is decoded whether or not a request type is declared
UnaryEnterAlwaysDecodes(body, data, query) ==
    LET d == IF body.json
             THEN IF query THEN QsFromBytes(data) ELSE JsonFromSlice(data)
             ELSE ProstDecode(data)
        step == IF body.json
                THEN IF query THEN "serde_qs::from_bytes" ELSE "serde_json::from_slice"
                ELSE "Message::decode"
    IN  IF d.ok THEN Suspend(body, IF body.request THEN d.value ELSE Unit,
                             <<step, "handler">>)
        ELSE Return(IF body.json THEN FromSerdeJson(d.err) ELSE FromDecodeError(d.err),
                    <<step>>)

\* fault variant: the query flag does not select the decoder
UnaryEnterQueryFlagIgnored(body, data, query) ==
    IF ~body.request THEN Suspend(body, Unit, <<"handler">>)
    ELSE IF body.json
    THEN IF data = <<>>
         THEN Suspend(body, DefaultRequest, <<"Default::default", "handler">>)
         ELSE LET d == JsonFromSlice(data)
              IN  IF d.ok THEN Suspend(body, d.value, <<"serde_json::from_slice", "handler">>)
                  ELSE Return(FromSerdeJson(d.err), <<"serde_json::from_slice">>)
    ELSE LET d == ProstDecode(data)
         IN  IF d.ok THEN Suspend(body, d.value, <<"Message::decode", "handler">>)
             ELSE Return(FromDecodeError(d.err), <<"Message::decode">>)

\* fault variant: the binary branch calls the handler whatever the decoder returns
UnaryEnterHandlerBeforeDecode(body, data, query) ==
    IF ~body.request THEN Suspend(body, Unit, <<"handler">>)
    ELSE IF body.json
    THEN IF data = <<>>
         THEN Suspend(body, DefaultRequest, <<"Default::default", "handler">>)
         ELSE LET d == IF query THEN QsFromBytes(data) ELSE JsonFromSlice(data)
                  step == IF query THEN "serde_qs::from_bytes"
                          ELSE "serde_json::from_slice"
              IN  IF d.ok THEN Suspend(body, d.value, <<step, "handler">>)
                  ELSE Return(IF query THEN FromSerdeQs(d.err) ELSE FromSerdeJson(d.err),
                              <<step>>)
    ELSE LET d == ProstDecode(data)
         IN  Suspend(body, IF d.ok THEN d.value ELSE DefaultRequest,
                     <<"handler", "Message::decode">>)

\* the code generate_unary emits, up to the handler's await
UnaryEnter(body, data, query) ==
    IF ~body.request THEN Suspend(body, Unit, <<"handler">>)
    ELSE IF body.json
    THEN IF data = <<>>
         THEN Suspend(body, DefaultRequest, <<"Default::default", "handler">>)
         ELSE LET d == IF query THEN QsFromBytes(data) ELSE JsonFromSlice(data)
                  step == IF query THEN "serde_qs::from_bytes"
                          ELSE "serde_json::from_slice"
              IN  IF d.ok THEN Suspend(body, d.value, <<step, "handler">>)
                  ELSE Return(IF query THEN FromSerdeQs(d.err) ELSE FromSerdeJson(d.err),
                              <<step>>)
    ELSE LET d == ProstDecode(data)
         IN  IF d.ok THEN Suspend(body, d.value, <<"Message::decode", "handler">>)
             ELSE Return(FromDecodeError(d.err), <<"Message::decode">>)

\* the code generate_unary emits, from the handler's return: `?` on the
\* handler's anyhow::Result, then the encoding of the response
UnaryResume(body, outcome) ==
    IF ~outcome.ok THEN Return(FromAnyhow(outcome.err), <<>>)
    ELSE IF body.json
    THEN Return(Ok(JsonToVec(outcome.value)), <<"serde_json::to_vec">>)
    ELSE Return(Ok(EncodeMessageToVec(outcome.value)), <<"encode_message_to_vec">>)

\* `match path { arms }`: the first arm whose pattern is the path, or 0
RECURSIVE MatchPath(_, _, _)
MatchPath(arms, path, i) ==
    IF i > Len(arms) THEN 0
    ELSE IF arms[i].path = path THEN i
    ELSE MatchPath(arms, path, i + 1)

\* the `_ =>` arm: anyhow::bail!("Service not found: {path}"), converted to
\* the function's error type
ServiceNotFound(path) == FromAnyhow(<<"Service not found: ">> \o path)

\* <Name>Server::dispatch_request(self, path, _data)
ServerDispatchRequest(server, path, data) ==
    LET i == MatchPath(server.methods, path, 1)
    IN  IF i = 0 THEN Return(ServiceNotFound(path), <<>>)
        ELSE UnaryEnter(server.methods[i].body, data, FALSE)

\* <Name>Server::dispatch_json_request(self, path, _data, _query)
ServerDispatchJsonRequest(server, path, data, query) ==
    LET i == MatchPath(server.json_methods, path, 1)
    IN  IF i = 0 THEN Return(ServiceNotFound(path), <<>>)
        ELSE UnaryEnter(server.json_methods[i].body, data, query)

\* impl Service for <Name>Server: dispatch_request(self, path, data, json, query)
ServiceDispatchRequest(server, path, data, json, query) ==
    IF json THEN ServerDispatchJsonRequest(server, path, data, query)
    ELSE ServerDispatchRequest(server, path, data)

(***************************************************************************)
(* The composition runtime: ComposedService<T, A> holds the application    *)
(* handle `app`; T, the tuple of service types, is `comp`.                 *)
(***************************************************************************)
\* path.split('.').next().unwrap_or_default()
RECURSIVE LeadingSegment(_)
LeadingSegment(path) ==
    IF path = <<>> THEN <<>>
    ELSE IF Head(path) = "." THEN <<>>
    ELSE <<Head(path)>> \o LeadingSegment(Tail(path))

\* fault variant: the last service of the name wins
RECURSIVE MatchServiceLast(_, _, _)
MatchServiceLast(composition, service_name, i) ==
    IF i > Len(composition) THEN 0
    ELSE LET later == MatchServiceLast(composition, service_name, i + 1)
         IN  IF later # 0 THEN later
             ELSE IF service_name = Server(composition[i]).NAME THEN i
             ELSE 0

\* the chain of `if service_name == $head::NAME { return .. }` tests, head
\* first, then each tail: the index of the service dispatched to, or 0
RECURSIVE MatchService(_, _, _)
MatchService(composition, service_name, i) ==
    IF i > Len(composition) THEN 0
    ELSE IF service_name = Server(composition[i]).NAME THEN i
    ELSE MatchService(composition, service_name, i + 1)

\* ComposedService::methods(): extend_from_slice of the head's methods,
\* then of each tail's
RECURSIVE ComposedMethodsFrom(_, _, _)
ComposedMethodsFrom(composition, i, methods) ==
    IF i > Len(composition) THEN methods
    ELSE ComposedMethodsFrom(composition, i + 1,
             methods \o Server(composition[i]).supported_methods)

\* fault variant: the tails are not appended
ComposedMethodsHeadOnly(composition) ==
    IF composition = <<>> THEN <<>>
    ELSE Server(composition[1]).supported_methods

ComposedMethods(composition) ==
    IF composition = <<>> THEN <<>>
    ELSE ComposedMethodsFrom(composition, 1, <<>>)

\* no handle: the place of a handle that was moved out or dropped
NoHandle == [id |-> 0, rejects |-> "all"]

\* fault variant: the handle is moved out of the set instead of cloned
CloneAppMovesOut(a) == [clone |-> a, kept |-> NoHandle]

\* self.app.clone(): the clone handed to the facade, and the handle the
\* composed set still holds
CloneApp(a) == [clone |-> a, kept |-> a]

NoFacade == [service |-> 0, inner |-> NoHandle]

\* $head::from(self.app.clone()): <Name>Server::new(inner)
FacadeFrom(i, inner) == [service |-> i, inner |-> inner]

\* fault variant: a NotFound that carries the segment
UnmatchedServiceCarriesSegment(service_name) ==
    [kind |-> "NotFound", segment |-> service_name]

\* the fall-through of the chain of tests: Err(Error::NotFound)
UnmatchedService(service_name) == NotFound

\* ComposedService::dispatch_request(&self, path, data, json), up to the
\* handler's await.  `query` is the fourth parameter of the generated
\* Service::dispatch_request; it travels with the call.
ComposedDispatchRequest(composition, a, path, data, json, query) ==
    IF composition = <<>>
    THEN [invoked |-> <<>>, facade |-> NoFacade, kept |-> a,
          enter |-> Return(NotFound, <<>>)]
    ELSE LET service_name == LeadingSegment(path)
             i == MatchService(composition, service_name, 1)
         IN  IF i = 0
             THEN [invoked |-> <<>>, facade |-> NoFacade, kept |-> a,
                   enter |-> Return(UnmatchedService(service_name), <<>>)]
             ELSE LET cl == CloneApp(a)
                  IN  [invoked |-> <<[service |-> i, path |-> path, data |-> data,
                                      json |-> json]>>,
                       facade |-> FacadeFrom(i, cl.clone),
                       kept |-> cl.kept,
                       enter |-> ServiceDispatchRequest(Server(composition[i]),
                                                         path, data, json, query)]

(***************************************************************************)
(* The state machine.  calls[c] is one dispatch call on the composed set.  *)
(***************************************************************************)
\* <Service>Method::from_str(path): `match path { #(#paths => Some(Self::#variants),)*
\* _ => None }`, the first arm whose pattern is the path
NoVariant == [some |-> FALSE, variant |-> <<>>]

RECURSIVE FromStrFrom(_, _, _)
FromStrFrom(method_enum, path, i) ==
    IF i > Len(method_enum) THEN NoVariant
    ELSE IF method_enum[i].path = path
    THEN [some |-> TRUE, variant |-> method_enum[i].variant]
    ELSE FromStrFrom(method_enum, path, i + 1)

FromStr(method_enum, path) == FromStrFrom(method_enum, path, 1)

\* no call was made on the generated server of the schema
NoProbe == [probed |-> FALSE]

Idle ==
    [pc |-> "idle", path |-> <<>>, data |-> <<>>, json |-> FALSE, query |-> FALSE,
     invoked |-> <<>>, facade |-> NoFacade, arm |-> NoArm, input |-> Unit,
     steps |-> <<>>, result |-> NoResult]

NotListed == [listed |-> FALSE, methods |-> <<>>]

NotRun == [ran |-> FALSE, result |-> Panic("")]

IdleSchema == Service(<<"a">>, <<>>, <<"a">>, <<>>)

Init ==
    /\ comp \in Compositions
    /\ app \in Apps
    /\ calls = [c \in 1..1 |-> Idle]
    /\ listed = NotListed
    /\ schema = IdleSchema
    /\ server_out = NotRun
    /\ client_out = NotRun
    /\ probe = NoProbe

\* a caller awaits composed.dispatch_request(path, data, json): the call
\* runs to its first suspension or to its return
Dispatch(c, paths, payloads, flags) ==
    /\ calls[c].pc = "idle"
    /\ \E path \in paths, data \in payloads, json \in BOOLEAN, query \in flags :
          LET r == ComposedDispatchRequest(comp, app, path, data, json, query)
          IN  /\ calls' = [calls EXCEPT ![c] =
                     [pc |-> IF r.enter.suspended THEN "awaiting" ELSE "done",
                      path |-> path, data |-> data, json |-> json, query |-> query,
                      invoked |-> r.invoked,
                      facade |-> IF r.enter.suspended THEN r.facade ELSE NoFacade,
                      arm |-> r.enter.arm,
                      input |-> r.enter.input,
                      steps |-> r.enter.steps,
                      result |-> r.enter.result]]
              /\ app' = r.kept
    /\ UNCHANGED <<comp, listed, schema, server_out, client_out, probe>>

\* the implementer's handler returns: the call runs to its return
HandlerReturn(c) ==
    /\ calls[c].pc = "awaiting"
    /\ LET call == calls[c]
           outcome == HandlerOutcome(call.facade.inner, call.arm.ident, call.input)
           r == UnaryResume(call.arm, outcome)
       IN  calls' = [calls EXCEPT ![c] =
               [call EXCEPT !.pc = "done",
                            !.facade = NoFacade,
                            !.steps = call.steps \o <<"returned">> \o r.steps,
                            !.result = r.result]]
    /\ UNCHANGED <<comp, app, listed, schema, server_out, client_out, probe>>

\* the caller drops the future while the handler is suspended
Cancel(c) ==
    /\ calls[c].pc = "awaiting"
    /\ calls' = [calls EXCEPT ![c] =
           [calls[c] EXCEPT !.pc = "cancelled", !.facade = NoFacade]]
    /\ UNCHANGED <<comp, app, listed, schema, server_out, client_out, probe>>

\* ComposedService::methods()
QueryMethods ==
    /\ ~listed.listed
    /\ listed' = [listed |-> TRUE, methods |-> ComposedMethods(comp)]
    /\ UNCHANGED <<comp, app, calls, schema, server_out, client_out, probe>>

Next ==
    \/ \E c \in DOMAIN calls : Dispatch(c, Paths, Payloads, BOOLEAN)
    \/ \E c \in DOMAIN calls : HandlerReturn(c)
    \/ \E c \in DOMAIN calls : Cancel(c)
    \/ QueryMethods

Spec == Init /\ [][Next]_vars

(***************************************************************************)
(* Concurrent dispatch calls on one composed set.                          *)
(***************************************************************************)
ConcPaths == {<<"a", ".", "a">>, <<"b", ".", "a">>, <<"b">>, <<>>}

ConcPayloads == {<<>>, PayloadProstBad}

ConcInit ==
    /\ comp \in {<<SvcA>>, <<SvcA, SvcB>>}
    /\ app \in Apps
    /\ calls = [c \in 1..MaxCalls |-> Idle]
    /\ listed = NotListed
    /\ schema = IdleSchema
    /\ server_out = NotRun
    /\ client_out = NotRun
    /\ probe = NoProbe

ConcNext ==
    \/ \E c \in DOMAIN calls : Dispatch(c, ConcPaths, ConcPayloads, {FALSE})
    \/ \E c \in DOMAIN calls : HandlerReturn(c)
    \/ \E c \in DOMAIN calls : Cancel(c)

ConcSpec == ConcInit /\ [][ConcNext]_vars

(***************************************************************************)
(* The generators at build time, run on one schema.                        *)
(***************************************************************************)
MethodVariants ==
    {Method(n, <<n>>, r, cs, ss) :
        n \in {"a", "b"}, r \in BOOLEAN, cs \in BOOLEAN, ss \in BOOLEAN}

GenSchemas ==
    {Service(<<"a">>, pkg, <<"a">>, ms) :
        pkg \in {<<>>, <<"b">>}, ms \in SeqsUpTo(MethodVariants, MaxMethods)}

GenInit ==
    /\ schema \in GenSchemas
    /\ server_out = NotRun
    /\ client_out = NotRun
    /\ comp = <<>>
    /\ app = [id |-> 1, rejects |-> "none"]
    /\ calls = [c \in 1..1 |-> Idle]
    /\ listed = NotListed
    /\ probe = NoProbe

\* server::generate(service, config)
GenerateServer ==
    /\ ~server_out.ran
    /\ server_out' = [ran |-> TRUE, result |-> ServerGenerate(schema)]
    /\ UNCHANGED <<comp, app, calls, listed, schema, client_out, probe>>

\* client::generate(service, config)
GenerateClient ==
    /\ ~client_out.ran
    /\ client_out' = [ran |-> TRUE, result |-> ClientGenerate(schema)]
    /\ UNCHANGED <<comp, app, calls, listed, schema, server_out, probe>>

\* the route key of the i-th method of a schema, as a client sends it
RoutePathOf(sch, i) ==
    ClientGenerateMethods(sch).out[i].path

\* a caller of the generated module: supported_methods(), from_str(path) and
\* both dispatch entry points of the server on one path, each run up to the
\* handler's await or to its return
ProbeServer ==
    /\ server_out.ran
    /\ ~server_out.result.panic
    /\ ~probe.probed
    /\ \E path \in Paths \cup {RoutePathOf(schema, i) : i \in 1..Len(schema.methods)},
          data \in ConcPayloads :
          LET server == server_out.result.out
          IN  probe' = [probed |-> TRUE, path |-> path, data |-> data,
                        supported_methods |-> server.supported_methods,
                        from_str |-> FromStr(server.method_enum, path),
                        binary |-> ServerDispatchRequest(server, path, data),
                        json |-> ServerDispatchJsonRequest(server, path, data, FALSE)]
    /\ UNCHANGED <<comp, app, calls, listed, schema, server_out, client_out>>

GenNext == GenerateServer \/ GenerateClient \/ ProbeServer

GenSpec == GenInit /\ [][GenNext]_vars

(***************************************************************************)
(* Dispatch of the paths that introspection lists, on compositions of      *)
(* services of pairwise distinct names.  SvcD is a service whose name      *)
(* (the NAME of its server) differs from its identifier (the service part  *)
(* of its route paths); SvcP is a service of a non-empty package.          *)
(***************************************************************************)
SvcD == Service(<<"a", "b">>, <<>>, <<"b", "a">>,
                <<Method("a", <<"a">>, TRUE, FALSE, FALSE)>>)

SvcP == Service(<<"b", "b">>, <<"a">>, <<"b", "b">>,
                <<Method("a", <<"a">>, FALSE, FALSE, FALSE)>>)

RouteSchemas == {SvcA, SvcB, SvcD, SvcP}

RouteCompositions ==
    {c \in SeqsUpTo(RouteSchemas, MaxArity) :
        \A i, j \in 1..Len(c) : i # j => c[i].name # c[j].name}

RouteInit ==
    /\ comp \in RouteCompositions
    /\ app \in Apps
    /\ calls = [c \in 1..1 |-> Idle]
    /\ listed = NotListed
    /\ schema = IdleSchema
    /\ server_out = NotRun
    /\ client_out = NotRun
    /\ probe = NoProbe

\* the paths the last call of methods() returned
ListedPaths == {listed.methods[i] : i \in 1..Len(listed.methods)}

RouteNext ==
    \/ QueryMethods
    \/ \E c \in DOMAIN calls : Dispatch(c, ListedPaths, Payloads, BOOLEAN)
    \/ \E c \in DOMAIN calls : HandlerReturn(c)
    \/ \E c \in DOMAIN calls : Cancel(c)

RouteSpec == RouteInit /\ [][RouteNext]_vars

(***************************************************************************)
(* Properties.                                                             *)
(***************************************************************************)
\* the length of the part of a path before its first '.'
SegmentLen(path) ==
    CHOOSE k \in 0..Len(path) :
        /\ \A j \in 1..k : path[j] # "."
        /\ k = Len(path) \/ path[k + 1] = "."

SegmentOf(path) == SubSeq(path, 1, SegmentLen(path))

\* the positions of the composition whose schema name is the segment
Named(seg) == {i \in 1..Len(comp) : comp[i].name = seg}

FirstNamed(seg) == CHOOSE i \in Named(seg) : \A j \in Named(seg) : i <= j

\* C1: a composed dispatch invokes exactly the first service, in composition
\* order, whose NAME equals the part of the path before its first '.', with
\* the full path and the unmodified body; when no NAME equals it, no service
\* is invoked and the result is NotFound.
C1_RoutesToFirstNamedService ==
    \A c \in DOMAIN calls :
        LET call == calls[c]
            seg == SegmentOf(call.path)
        IN  call.pc # "idle" =>
                IF Named(seg) # {}
                THEN call.invoked = <<[service |-> FirstNamed(seg), path |-> call.path,
                                       data |-> call.data, json |-> call.json]>>
                ELSE /\ call.invoked = <<>>
                     /\ call.pc = "done"
                     /\ call.result = NotFound

\* two services of the same NAME are composed; the first of them was
\* invoked with a non-empty body
C1_Witness ==
    \E c \in DOMAIN calls :
        /\ comp = <<SvcC, SvcA>>
        /\ calls[c].pc = "done"
        /\ calls[c].path = <<"a", ".", "b">>
        /\ calls[c].data = PayloadProst
        /\ Len(calls[c].invoked) = 1
        /\ calls[c].invoked[1].service = 1
        /\ calls[c].result.kind = "Ok"

\* the route paths the service at position i of the composition declares
DeclaredPaths(i) ==
    {JoinPath(comp[i].package, comp[i].identifier, comp[i].methods[j].identifier) :
        j \in 1..Len(comp[i].methods)}

\* C2: in a generated dispatcher, a path that matches no entry of the method
\* table yields a NotFound error, never BadRequest or DecodeError, on the
\* binary and on the alternate entry point.
C2_UnmatchedRouteIsNotFound ==
    \A c \in DOMAIN calls :
        LET call == calls[c]
        IN  (/\ call.pc = "done"
             /\ call.invoked # <<>>
             /\ call.path \notin DeclaredPaths(call.invoked[1].service))
            => call.result.kind = "NotFound"

\* the methods() of the service at position k
MethodsOf(k) == Server(comp[k]).supported_methods

\* the number of methods of the services before position k
RECURSIVE Offset(_)
Offset(k) == IF k <= 1 THEN 0 ELSE Offset(k - 1) + Len(MethodsOf(k - 1))

\* C3: methods() of a composition is the methods() of its services one after
\* the other, in composition order, every entry kept in its own order; the
\* empty composition has no methods.
C3_MethodsConcatenated ==
    listed.listed =>
        /\ Len(listed.methods) = Offset(Len(comp) + 1)
        /\ \A k \in 1..Len(comp) :
              \A j \in 1..Len(MethodsOf(k)) :
                  listed.methods[Offset(k) + j] = MethodsOf(k)[j]
        /\ comp = <<>> => listed.methods = <<>>

C3_Witness ==
    /\ listed.listed
    /\ comp = <<SvcB, SvcA>>
    /\ listed.methods = <<<<"b", ".", "a">>, <<"a", ".", "a">>, <<"a", ".", "b">>>>

\* the call was forwarded to a service and its path is one of that
\* service's route paths
Routed(call) ==
    /\ call.pc # "idle"
    /\ call.invoked # <<>>
    /\ call.path \in DeclaredPaths(call.invoked[1].service)

\* the schema method a routed call names
MethodOf(call) ==
    LET sch == comp[call.invoked[1].service]
        j == CHOOSE j \in 1..Len(sch.methods) :
                 JoinPath(sch.package, sch.identifier, sch.methods[j].identifier)
                     = call.path
    IN  sch.methods[j]

DecodeSteps == {"Message::decode", "serde_json::from_slice", "serde_qs::from_bytes"}

InSeq(x, seq) == \E i \in 1..Len(seq) : seq[i] = x

IsPrefix(p, seq) == Len(p) <= Len(seq) /\ p = SubSeq(seq, 1, Len(p))

BinarySteps == <<"Message::decode", "handler", "returned", "encode_message_to_vec">>

\* C5: binary dispatch of a method with a request type runs decode, handler,
\* encode in this order, each at most once; the handler runs only on a
\* decoded request (the empty payload decodes to the default value), a decode
\* failure is a DecodeError without any handler call, the response is encoded
\* only after the handler returned successfully, and a cancelled or failed
\* call produces no response and keeps no facade.
C5_BinaryDecodeHandlerEncode ==
    \A c \in DOMAIN calls :
        LET call == calls[c]
            d == ProstDecode(call.data)
        IN  (Routed(call) /\ MethodOf(call).request /\ ~call.json) =>
                /\ IsPrefix(call.steps, BinarySteps)
                /\ call.data = <<>> => (d.ok /\ d.value = DefaultRequest)
                /\ ~d.ok => /\ call.pc = "done"
                            /\ call.steps = <<"Message::decode">>
                            /\ call.result.kind = "DecodeError"
                /\ d.ok => /\ Len(call.steps) >= 2
                           /\ call.input = d.value
                /\ call.pc = "awaiting" => /\ Len(call.steps) = 2
                                           /\ call.result = NoResult
                /\ call.pc = "cancelled" => /\ Len(call.steps) = 2
                                            /\ call.result = NoResult
                                            /\ call.facade = NoFacade
                /\ (call.pc = "done" /\ d.ok) =>
                       LET h == HandlerOutcome(app, MethodOf(call).name, d.value)
                       IN  IF h.ok
                           THEN /\ call.steps = BinarySteps
                                /\ call.result = Ok(EncodeMessageToVec(h.value))
                           ELSE /\ Len(call.steps) = 3
                                /\ call.result.kind = "BadRequest"
                /\ call.pc = "done" => call.facade = NoFacade

\* a binary call with a request was cancelled while its handler was suspended
C5_Witness ==
    \E c \in DOMAIN calls :
        /\ Routed(calls[c])
        /\ MethodOf(calls[c]).request
        /\ ~calls[c].json
        /\ calls[c].data = PayloadProst
        /\ calls[c].pc = "cancelled"
        /\ calls[c].input = [x |-> 1]

IsJsonDocument(body) ==
    /\ Len(body) >= 2
    /\ body[1] = Ascii.LBrace
    /\ body[Len(body)] = Ascii.RBrace

\* C6: alternate dispatch of a method with a request type decodes a non-empty
\* payload as key=value pairs when the query flag is set and as a JSON
\* document when it is clear; an empty payload gives the default request
\* without decoding; a successful response is the JSON encoding.
C6_AlternateDecoderChoice ==
    \A c \in DOMAIN calls :
        LET call == calls[c]
            decodes == {i \in 1..Len(call.steps) : call.steps[i] \in DecodeSteps}
        IN  (Routed(call) /\ MethodOf(call).request /\ call.json) =>
                /\ call.data = <<>> =>
                       /\ decodes = {}
                       /\ call.steps[1] = "Default::default"
                       /\ call.input = DefaultRequest
                /\ (call.data # <<>> /\ call.query) =>
                       /\ decodes = {1}
                       /\ call.steps[1] = "serde_qs::from_bytes"
                       /\ IF QsFromBytes(call.data).ok
                          THEN call.input = QsFromBytes(call.data).value
                          ELSE call.pc = "done" /\ call.result.kind # "Ok"
                /\ (call.data # <<>> /\ ~call.query) =>
                       /\ decodes = {1}
                       /\ call.steps[1] = "serde_json::from_slice"
                       /\ IF JsonFromSlice(call.data).ok
                          THEN call.input = JsonFromSlice(call.data).value
                          ELSE call.pc = "done" /\ call.result.kind # "Ok"
                /\ call.result.kind = "Ok" =>
                       /\ call.steps[Len(call.steps)] = "serde_json::to_vec"
                       /\ ~InSeq("encode_message_to_vec", call.steps)
                       /\ IsJsonDocument(call.result.body)

\* a key=value payload with the query flag set was decoded and answered
C6_Witness ==
    \E c \in DOMAIN calls :
        /\ Routed(calls[c])
        /\ MethodOf(calls[c]).request
        /\ calls[c].json
        /\ calls[c].query
        /\ calls[c].data = PayloadQs
        /\ calls[c].input = [x |-> 1]
        /\ calls[c].result = Ok(JsonToVec([y |-> 1]))

HasStreaming(sch) ==
    \E i \in 1..Len(sch.methods) :
        sch.methods[i].client_streaming \/ sch.methods[i].server_streaming

\* C7: generation for a schema with a client-streaming or server-streaming
\* method, at any position, panics and emits nothing, in the server and in
\* the client generator alike; a schema of unary methods never panics.
C7_StreamingAbortsGeneration ==
    /\ server_out.ran =>
          /\ server_out.result.panic <=> HasStreaming(schema)
          /\ server_out.result.panic => "out" \notin DOMAIN server_out.result
          /\ ~server_out.result.panic =>
                 Len(server_out.result.out.methods) = Len(schema.methods)
    /\ client_out.ran =>
          /\ client_out.result.panic <=> HasStreaming(schema)
          /\ client_out.result.panic => "out" \notin DOMAIN client_out.result
          /\ ~client_out.result.panic =>
                 Len(client_out.result.out.methods) = Len(schema.methods)

\* the second method is server-streaming, the first is unary: both
\* generators ran and panicked
C7_Witness ==
    /\ Len(schema.methods) = 2
    /\ ~schema.methods[1].client_streaming
    /\ ~schema.methods[1].server_streaming
    /\ schema.methods[2].server_streaming
    /\ ~schema.methods[2].client_streaming
    /\ server_out.ran
    /\ client_out.ran
    /\ server_out.result.panic
    /\ client_out.result.panic

\* C8: a handler failure is reported as BadRequest with exactly the
\* handler's message, and a failure to decode the request (binary, JSON or
\* scale codec) as DecodeError; so neither is reported as NotFound and a
\* decode failure is never a BadRequest.
C8_ErrorKindByCause ==
    /\ \A c \in DOMAIN calls :
          LET call == calls[c]
              m == MethodOf(call)
              h == HandlerOutcome(app, m.name, call.input)
          IN  (Routed(call) /\ call.pc = "done") =>
                  /\ (/\ m.request
                      /\ ~call.json
                      /\ ~ProstDecode(call.data).ok)
                     => call.result = DecodeError(ProstDecode(call.data).err)
                  /\ (/\ m.request
                      /\ call.json
                      /\ ~call.query
                      /\ call.data # <<>>
                      /\ ~JsonFromSlice(call.data).ok)
                     => call.result = DecodeError(JsonFromSlice(call.data).err)
                  /\ (InSeq("returned", call.steps) /\ ~h.ok)
                     => call.result = BadRequest(h.err)
    /\ FromScaleCodecErr(<<"scale">>) = DecodeError(<<"scale">>)

\* a handler rejected a decoded request: BadRequest with its message
C8_Witness ==
    \E c \in DOMAIN calls :
        /\ Routed(calls[c])
        /\ calls[c].pc = "done"
        /\ calls[c].data = PayloadProst
        /\ InSeq("returned", calls[c].steps)
        /\ calls[c].result = BadRequest(<<"rejected", "a">>)

\* the result of a call dispatched alone on the composed set
AloneResult(call) ==
    LET r == ComposedDispatchRequest(comp, app, call.path, call.data, call.json,
                                     call.query).enter
    IN  IF r.suspended
        THEN UnaryResume(r.arm, HandlerOutcome(app, r.arm.ident, r.input)).result
        ELSE r.result

C9_EachCallAsAlone ==
    \A c \in DOMAIN calls :
        LET call == calls[c]
        IN  /\ call.invoked # <<>> =>
                   call.invoked[1].service = FirstNamed(SegmentOf(call.path))
            /\ IF call.pc = "awaiting"
               THEN call.facade = [service |-> call.invoked[1].service, inner |-> app]
               ELSE call.facade = NoFacade
            /\ call.pc = "done" => call.result = AloneResult(call)

\* C9: every dispatch call on a composed set builds its own facade from a
\* clone of the shared handle and leaves the set and its handle unchanged,
\* whether it succeeds, fails or is cancelled; under every interleaving a
\* step of one call changes no other call, and each call is routed and
\* answered as if it ran alone.
C9_StatelessDispatch ==
    /\ [](C9_EachCallAsAlone)
    /\ [][/\ app' = app
          /\ comp' = comp
          /\ \A c, d \in DOMAIN calls :
                 (calls'[c] # calls[c] /\ calls'[d] # calls[d]) => c = d]_vars

\* two calls with the same inputs overlap: one has returned while the other
\* is still suspended in its handler
C9_Witness ==
    \E c, d \in DOMAIN calls :
        /\ c # d
        /\ calls[c].pc = "awaiting"
        /\ calls[d].pc = "done"
        /\ calls[c].path = calls[d].path
        /\ calls[c].data = calls[d].data
        /\ calls[c].json = calls[d].json
        /\ calls[d].result.kind = "Ok"

\* the done calls whose leading segment no composed service is named by
Unmatched == {c \in DOMAIN calls : calls[c].pc = "done"
                                   /\ Named(SegmentOf(calls[c].path)) = {}}

\* C10 as stated: the NotFound of a composed dispatch carries the unmatched
\* segment, so different unmatched segments give distinguishable errors.
C10_NotFoundCarriesSegment ==
    \A c, d \in Unmatched :
        SegmentOf(calls[c].path) # SegmentOf(calls[d].path)
            => calls[c].result # calls[d].result

\* C10 as amended: the error of an unmatched leading segment is the bare
\* NotFound, which carries no data: it is the same value for every
\* unmatched segment.
C10_NotFoundCarriesNothing ==
    \A c \in Unmatched :
        /\ DOMAIN calls[c].result = {"kind"}
        /\ calls[c].result.kind = "NotFound"

\* two dispatches with different unmatched segments returned equal errors
C10_Witness ==
    \E c, d \in Unmatched :
        /\ SegmentOf(calls[c].path) = <<"b">>
        /\ SegmentOf(calls[d].path) = <<>>
        /\ calls[c].result = calls[d].result

\* the route path of the i-th method of a schema
RoutePath(sch, i) == JoinPath(sch.package, sch.identifier, sch.methods[i].identifier)

DistinctPaths(sch) ==
    \A i, j \in 1..Len(sch.methods) : i # j => RoutePath(sch, i) # RoutePath(sch, j)

\* the entry point took the path for one of its routes: it did not end in
\* the error of the `_ =>` arm
Accepted(r, path) ==
    ~(/\ ~r.suspended
      /\ r.result.kind \in {"NotFound", "BadRequest"}
      /\ r.result = ServiceNotFound(path))

\* C11: for a schema of unary methods with pairwise distinct route paths,
\* supported_methods() is the route path of every schema method, in schema
\* order; binary dispatch and alternate dispatch accept exactly the paths it
\* lists; from_str maps each listed path to the variant of its method and
\* every other string to None.
C11_GeneratedTablesAgree ==
    (probe.probed /\ ~HasStreaming(schema) /\ DistinctPaths(schema)) =>
        LET sm == probe.supported_methods
            at == {i \in 1..Len(schema.methods) : RoutePath(schema, i) = probe.path}
        IN  /\ Len(sm) = Len(schema.methods)
            /\ \A i \in 1..Len(schema.methods) : sm[i] = RoutePath(schema, i)
            /\ Accepted(probe.binary, probe.path) <=> at # {}
            /\ Accepted(probe.json, probe.path) <=> at # {}
            /\ IF at # {}
               THEN /\ probe.from_str.some
                    /\ \A i \in at :
                           probe.from_str.variant = schema.methods[i].identifier
               ELSE ~probe.from_str.some

\* a schema of two unary methods was generated and its second route was
\* looked up: both entry points took it and from_str names the method
C11_Witness ==
    /\ probe.probed
    /\ Len(schema.methods) = 2
    /\ DistinctPaths(schema)
    /\ probe.path = <<"a", ".", "b">>
    /\ probe.supported_methods = <<<<"a", ".", "a">>, <<"a", ".", "b">>>>
    /\ probe.binary.suspended
    /\ probe.json.suspended
    /\ probe.from_str = [some |-> TRUE, variant |-> <<"b">>]

\* C12: every path methods() of a composition returns is, when dispatched on
\* that composition, forwarded to the service that declared it and matched
\* there to the method it names; it never ends in NotFound or in the error
\* of an unmatched route.
C12_ListedPathsAreRouted ==
    \A c \in DOMAIN calls :
        LET call == calls[c]
        IN  (call.pc # "idle" /\ listed.listed /\ call.path \in ListedPaths) =>
                /\ call.invoked # <<>>
                /\ call.path \in DeclaredPaths(call.invoked[1].service)
                /\ call.result # NotFound
                /\ call.result # ServiceNotFound(call.path)
                /\ call.steps # <<>>
                /\ InSeq("handler", call.steps) =>
                       call.arm.ident = MethodOf(call).name

====
